---- MODULE Spec2Model ----
(***************************************************************************)
(* Model of rendercv/renderer/templater/entry_templates_from_input.py:     *)
(* the entry-template renderer (render_entry_templates), its special-field *)
(* processors, the placeholder elider (remove_not_provided_placeholders)   *)
(* and the trailing-character cleanup (clean_trailing_parts).              *)
(*                                                                         *)
(* A Python str is a sequence of one-character strings.  An element of     *)
(* more than one character is not a character: "format_single_date(" and   *)
(* the like are pieces of text produced by a collaborator outside this     *)
(* file, "U+00E9" is the letter with that code point, and "<None>",        *)
(* "<unset>" and "<str>" mark what is no str at all.                       *)
(***************************************************************************)
EXTENDS Integers, Sequences, FiniteSets, TLC

VARIABLES pc, entry, entry_in, templates, show_time_span,
          entry_templates, entry_fields, result, text, args

vars == <<pc, entry, entry_in, templates, show_time_span,
          entry_templates, entry_fields, result, text, args>>

(***************************************************************************)
(* Bounds of the checked input spaces.                                     *)
(***************************************************************************)
\* longest text handed to clean_trailing_parts
MaxLen == 5
\* total length of the template strings handed to the elider
MaxTemplateLen == 3

(***************************************************************************)
(* Character classes of Python's re module on str patterns (Unicode).      *)
(***************************************************************************)
UpperLetters == <<"A","B","C","D","E","F","G","H","I","J","K","L","M",
                  "N","O","P","Q","R","S","T","U","V","W","X","Y","Z">>

LowerLetters == <<"a","b","c","d","e","f","g","h","i","j","k","l","m",
                  "n","o","p","q","r","s","t","u","v","w","x","y","z">>

Digits == {"0","1","2","3","4","5","6","7","8","9"}

Range(f) == {f[i] : i \in DOMAIN f}

\* a letter outside ASCII (U+00E9, e with acute accent, written by its code
\* point): \w and \b count it as a word character
NonAsciiLetters == {"U+00E9"}

\* the class [A-Z_] of uppercase_word_pattern
IsPlaceholderChar(c) == c \in Range(UpperLetters) \cup {"_"}

\* \w, which decides where \b holds
IsWordChar(c) ==
    c \in Range(UpperLetters) \cup Range(LowerLetters) \cup Digits
          \cup {"_"} \cup NonAsciiLetters

\* \s, and what str.rstrip() strips
IsSpace(c) == c \in {" ", "\t", "\n", "\r", "\f"}

\* the line boundaries of str.splitlines() that the model's texts use
IsLineBreak(c) == c \in {"\n", "\r"}

\* the class A-Za-z0-9.!?[]()*_% that unwanted_trailing_parts_pattern excludes
IsAllowedTrailing(c) ==
    c \in Range(UpperLetters) \cup Range(LowerLetters) \cup Digits
          \cup {".", "!", "?", "[", "]", "(", ")", "*", "_", "%"}

(***************************************************************************)
(* str helpers.                                                            *)
(***************************************************************************)
Strings(alphabet, n) == UNION {[1..k -> alphabet] : k \in 0..n}

Slice(s, i, j) == [k \in 1..(j - i + 1) |-> s[i + k - 1]]

\* s[i:i+len(p)] == p
MatchesAt(s, p, i) ==
    /\ i + Len(p) - 1 <= Len(s)
    /\ \A k \in 1..Len(p) : s[i + k - 1] = p[k]

RECURSIVE Join(_, _)
Join(sep, parts) ==
    IF parts = <<>> THEN <<>>
    ELSE IF Len(parts) = 1 THEN parts[1]
    ELSE parts[1] \o sep \o Join(sep, Tail(parts))

RECURSIVE RStripTo(_, _)
RStripTo(s, n) ==
    IF n = 0 THEN <<>>
    ELSE IF IsSpace(s[n]) THEN RStripTo(s, n - 1)
    ELSE Slice(s, 1, n)

\* str.rstrip()
RStrip(s) == RStripTo(s, Len(s))

RECURSIVE FirstLineBreak(_, _)
FirstLineBreak(s, i) ==
    IF i > Len(s) THEN 0
    ELSE IF IsLineBreak(s[i]) THEN i
    ELSE FirstLineBreak(s, i + 1)

\* str.splitlines(): "\r\n" is one boundary, and a final boundary ends the
\* last line without opening an empty one
RECURSIVE SplitLines(_)
SplitLines(s) ==
    IF s = <<>> THEN <<>>
    ELSE LET b == FirstLineBreak(s, 1) IN
         IF b = 0 THEN <<s>>
         ELSE LET w == IF s[b] = "\r" /\ b < Len(s) /\ s[b + 1] = "\n"
                       THEN 2 ELSE 1
              IN <<Slice(s, 1, b - 1)>> \o SplitLines(Slice(s, b + w, Len(s)))

(***************************************************************************)
(* clean_trailing_parts                                                    *)
(***************************************************************************)
RECURSIVE StripUnwantedTo(_, _)
StripUnwantedTo(s, n) ==
    IF n = 0 THEN <<>>
    ELSE IF ~IsAllowedTrailing(s[n]) THEN StripUnwantedTo(s, n - 1)
    ELSE Slice(s, 1, n)

\* unwanted_trailing_parts_pattern.sub("", s): the trailing run of
\* characters outside the allowed class is removed
unwanted_trailing_parts_sub(s) == StripUnwantedTo(s, Len(s))

\* the loop body: a line that is empty after rstrip() is skipped; any other
\* line is appended after the pattern and a second rstrip()
RECURSIVE CleanLines(_)
CleanLines(lines) ==
    IF lines = <<>> THEN <<>>
    ELSE LET new_line == RStrip(Head(lines)) IN
         IF new_line = <<>> THEN CleanLines(Tail(lines))
         ELSE <<RStrip(unwanted_trailing_parts_sub(new_line))>>
                  \o CleanLines(Tail(lines))

clean_trailing_parts(s) == Join(<<"\n">>, CleanLines(SplitLines(s)))

(***************************************************************************)
(* remove_not_provided_placeholders                                        *)
(***************************************************************************)
\* uppercase_word_pattern.findall(s): \b[A-Z_]+\b matches exactly the maximal
\* runs of word characters that are made of [A-Z_] only
uppercase_word_findall(s) ==
    {Slice(s, i, j) : <<i, j>> \in
        {ij \in (1..Len(s)) \X (1..Len(s)) :
            /\ ij[1] <= ij[2]
            /\ \A k \in ij[1]..ij[2] : IsPlaceholderChar(s[k])
            /\ (ij[1] = 1 \/ ~IsWordChar(s[ij[1] - 1]))
            /\ (ij[2] = Len(s) \/ ~IsWordChar(s[ij[2] + 1]))}}

\* the end of the run of \S characters that starts at i (i - 1 if s[i] is \s)
RECURSIVE NonSpaceRunEnd(_, _)
NonSpaceRunEnd(s, i) ==
    IF i > Len(s) \/ IsSpace(s[i]) THEN i - 1
    ELSE NonSpaceRunEnd(s, i + 1)

\* where a match of \S*(?:p1|p2|...)\S* that starts at i ends, or 0 if none
\* starts there: the first \S* reaches an occurrence of some p inside the
\* run of \S characters at i, the last \S* takes the rest of the run
PatternMatchEnd(s, placeholders, i) ==
    LET e == NonSpaceRunEnd(s, i) IN
    IF \E k \in i..e : \E p \in placeholders :
           k + Len(p) - 1 <= e /\ MatchesAt(s, p, k)
    THEN e ELSE 0

\* pattern.sub("", s) from position i: leftmost matches, left to right
RECURSIVE PatternSubFrom(_, _, _)
PatternSubFrom(s, placeholders, i) ==
    IF i > Len(s) THEN <<>>
    ELSE LET e == PatternMatchEnd(s, placeholders, i) IN
         IF e # 0 THEN PatternSubFrom(s, placeholders, e + 1)
         ELSE <<s[i]>> \o PatternSubFrom(s, placeholders, i + 1)

\* the substitution as it would be without the \S* around the alternatives:
\* only the placeholders themselves are removed
RECURSIVE PlaceholdersOnlySubFrom(_, _, _)
PlaceholdersOnlySubFrom(s, placeholders, i) ==
    IF i > Len(s) THEN <<>>
    ELSE LET lens == {Len(p) : p \in {q \in placeholders : MatchesAt(s, q, i)}} IN
         IF lens # {}
         THEN PlaceholdersOnlySubFrom(s, placeholders,
                                      i + (CHOOSE n \in lens : \A m \in lens : m <= n))
         ELSE <<s[i]>> \o PlaceholdersOnlySubFrom(s, placeholders, i + 1)

placeholders_only_sub(s, placeholders) == PlaceholdersOnlySubFrom(s, placeholders, 1)

not_provided_placeholders_sub(s, placeholders) ==
    PatternSubFrom(s, placeholders, 1)

\* the values of a dict in the order of its keys
SlotValues(d, order) ==
    LET present == SelectSeq(order, LAMBDA k : k \in DOMAIN d)
    IN [i \in 1..Len(present) |-> d[present[i]]]

used_placeholders_in_templates(tpls, order) ==
    uppercase_word_findall(Join(<<" ">>, SlotValues(tpls, order)))

not_provided_placeholders(tpls, fields, order) ==
    used_placeholders_in_templates(tpls, order) \ DOMAIN fields

remove_not_provided_placeholders(tpls, fields, order) ==
    LET missing == not_provided_placeholders(tpls, fields, order) IN
    IF missing # {}
    THEN [key \in DOMAIN tpls |->
             clean_trailing_parts(not_provided_placeholders_sub(tpls[key], missing))]
    ELSE tpls

(***************************************************************************)
(* Names.  Attribute names, Field Map keys and template slot names are     *)
(* Python strings too.                                                     *)
(***************************************************************************)
highlights_attr == <<"h","i","g","h","l","i","g","h","t","s">>
authors_attr == <<"a","u","t","h","o","r","s">>
date_attr == <<"d","a","t","e">>
start_date_attr == <<"s","t","a","r","t","_","d","a","t","e">>
end_date_attr == <<"e","n","d","_","d","a","t","e">>
url_attr == <<"u","r","l">>
doi_attr == <<"d","o","i">>
summary_attr == <<"s","u","m","m","a","r","y">>
title_attr == <<"t","i","t","l","e">>
journal_attr == <<"j","o","u","r","n","a","l">>
company_attr == <<"c","o","m","p","a","n","y">>
position_attr == <<"p","o","s","i","t","i","o","n">>
location_attr == <<"l","o","c","a","t","i","o","n">>

\* the slots of a template set
main_column == <<"m","a","i","n","_","c","o","l","u","m","n">>
date_and_location_column == <<"d","a","t","e","_","a","n","d","_","l","o","c","a","t","i","o","n","_","c","o","l","u","m","n">>

\* the keys the code tests the Field Map for
HIGHLIGHTS == <<"H","I","G","H","L","I","G","H","T","S">>
AUTHORS == <<"A","U","T","H","O","R","S">>
DATE == <<"D","A","T","E">>
START_DATE == <<"S","T","A","R","T","_","D","A","T","E">>
END_DATE == <<"E","N","D","_","D","A","T","E">>
URL == <<"U","R","L">>
DOI == <<"D","O","I">>
SUMMARY == <<"S","U","M","M","A","R","Y">>

IndexOf(letters, c) == CHOOSE i \in DOMAIN letters : letters[i] = c

\* str.upper(), str.lower()
Upper(s) == [i \in DOMAIN s |->
                IF s[i] \in Range(LowerLetters)
                THEN UpperLetters[IndexOf(LowerLetters, s[i])] ELSE s[i]]

Lower(s) == [i \in DOMAIN s |->
                IF s[i] \in Range(UpperLetters)
                THEN LowerLetters[IndexOf(UpperLetters, s[i])] ELSE s[i]]

(***************************************************************************)
(* Values.  None is a value no str equals; a call returns a value or       *)
(* raises RenderCVInternalError with a message.                            *)
(***************************************************************************)
None == <<"<None>">>

\* bool(v) of a str (or int) or None: None, "" and 0 are false
Truthy(v) == v # None /\ v # <<>>

Return(v) == [ok |-> TRUE, v |-> v, error |-> ""]

Raise(message) == [ok |-> FALSE, v |-> <<>>, error |-> message]

\* getattr(entry, name, None); an attribute that is None and one the entry
\* does not define read alike everywhere in this file
GetAttr(e, name) == IF name \in DOMAIN e.attrs THEN e.attrs[name] ELSE None

(***************************************************************************)
(* Collaborators outside this file: .date, .string_processor and the       *)
(* entry schema.  Their results are opaque texts that name the call.       *)
(***************************************************************************)
format_single_date(date) == <<"format_single_date(">> \o date \o <<")">>

format_date_range(start_date, end_date) ==
    <<"format_date_range(">> \o start_date \o <<",">> \o end_date \o <<")">>

compute_time_span_string(start_date, end_date) ==
    <<"compute_time_span_string(">> \o start_date \o <<",">> \o end_date \o <<")">>

clean_url(url) == <<"clean_url(">> \o url \o <<")">>

\* PublicationEntry.doi_url
doi_url(e) == <<"doi_url(">> \o e.attrs[doi_attr] \o <<")">>

RECURSIVE WordRunEnd(_, _)
WordRunEnd(s, i) ==
    IF i > Len(s) \/ ~IsWordChar(s[i]) THEN i - 1
    ELSE WordRunEnd(s, i + 1)

\* the first placeholder token at or after position i: <<start, end>>, or
\* <<0, 0>>
RECURSIVE NextToken(_, _)
NextToken(s, i) ==
    IF i > Len(s) THEN <<0, 0>>
    ELSE LET e == WordRunEnd(s, i) IN
         IF /\ e >= i
            /\ (i = 1 \/ ~IsWordChar(s[i - 1]))
            /\ \A k \in i..e : IsPlaceholderChar(s[k])
         THEN <<i, e>>
         ELSE NextToken(s, i + 1)

\* substitute_placeholders(string, placeholders): every occurrence of a
\* placeholder token that is a key is replaced by its value; other text stays
RECURSIVE SubstituteFrom(_, _, _)
SubstituteFrom(s, placeholders, i) ==
    LET t == NextToken(s, i) IN
    IF t[1] = 0 THEN Slice(s, i, Len(s))
    ELSE LET token == Slice(s, t[1], t[2]) IN
         Slice(s, i, t[1] - 1)
           \o (IF token \in DOMAIN placeholders THEN placeholders[token] ELSE token)
           \o SubstituteFrom(s, placeholders, t[2] + 1)

substitute_placeholders(s, placeholders) == SubstituteFrom(s, placeholders, 1)

(***************************************************************************)
(* Special-field processors                                                *)
(***************************************************************************)
\* str.replace(old, new)
RECURSIVE ReplaceFrom(_, _, _, _)
ReplaceFrom(s, old, new, i) ==
    IF i > Len(s) THEN <<>>
    ELSE IF MatchesAt(s, old, i) THEN new \o ReplaceFrom(s, old, new, i + Len(old))
    ELSE <<s[i]>> \o ReplaceFrom(s, old, new, i + 1)

process_highlights(highlights) ==
    Join(<<"\n">>,
         [i \in DOMAIN highlights |->
             <<"-", " ">> \o ReplaceFrom(highlights[i], <<" ", "-", " ">>,
                                         <<"\n", " ", " ", "-", " ">>, 1)])

process_authors(authors) == Join(<<",", " ">>, authors)

process_date(date, start_date, end_date, show) ==
    IF Truthy(date) /\ ~(Truthy(start_date) \/ Truthy(end_date))
    THEN Return(format_single_date(date))
    ELSE IF Truthy(start_date) /\ Truthy(end_date)
    THEN LET date_range == format_date_range(start_date, end_date) IN
         IF show
         THEN Return(date_range \o <<"\n", "\n">>
                        \o compute_time_span_string(start_date, end_date))
         ELSE Return(date_range)
    ELSE Raise("Date is not provided for this entry.")

process_doi(e) ==
    IF e.kind = "PublicationEntry" /\ Truthy(GetAttr(e, doi_attr))
    THEN Return(doi_url(e))
    ELSE Raise("DOI is not provided for this entry.")

\* process_url as it would be with the url attribute tested first
process_url_url_first(e) ==
    IF Truthy(GetAttr(e, url_attr))
    THEN LET url == e.attrs[url_attr] IN
         Return(<<"[">> \o clean_url(url) \o <<"]", "(">> \o url \o <<")">>)
    ELSE IF e.kind = "PublicationEntry" /\ Truthy(GetAttr(e, doi_attr))
    THEN process_doi(e)
    ELSE Raise("URL is not provided for this entry.")

process_url(e) ==
    IF e.kind = "PublicationEntry" /\ Truthy(GetAttr(e, doi_attr))
    THEN process_doi(e)
    ELSE IF Truthy(GetAttr(e, url_attr))
    THEN LET url == e.attrs[url_attr] IN
         Return(<<"[">> \o clean_url(url) \o <<"]", "(">> \o url \o <<")">>)
    ELSE Raise("URL is not provided for this entry.")

\* str.splitlines(True): the lines with their line endings
RECURSIVE SplitLinesKeepEnds(_)
SplitLinesKeepEnds(s) ==
    IF s = <<>> THEN <<>>
    ELSE LET b == FirstLineBreak(s, 1) IN
         IF b = 0 THEN <<s>>
         ELSE LET w == IF s[b] = "\r" /\ b < Len(s) /\ s[b + 1] = "\n"
                       THEN 2 ELSE 1
              IN <<Slice(s, 1, b + w - 1)>>
                   \o SplitLinesKeepEnds(Slice(s, b + w, Len(s)))

\* textwrap.indent(s, prefix): the prefix before every line that is not
\* made of whitespace only
textwrap_indent(s, prefix) ==
    LET lines == SplitLinesKeepEnds(s) IN
    Join(<<>>, [i \in DOMAIN lines |->
                   IF \E k \in DOMAIN lines[i] : ~IsSpace(lines[i][k])
                   THEN prefix \o lines[i] ELSE lines[i]])

SUMMARY_HEADER == <<"!","!","!"," ","s","u","m","m","a","r","y","\n">>

process_summary(summary) ==
    SUMMARY_HEADER \o textwrap_indent(summary, <<" ", " ", " ", " ">>)

(***************************************************************************)
(* render_entry_templates                                                  *)
(***************************************************************************)
\* what a variable holds before the code assigns it
Unset == (<<"<unset>">> :> <<>>)

NoResult == [ok |-> FALSE, v |-> <<>>, error |-> "<pending>"]

\* entry.entry_type_in_snake_case
entry_type_in_snake_case(e) ==
    CASE e.kind = "PublicationEntry" -> "publication_entry"
      [] e.kind = "ExperienceEntry" -> "experience_entry"
      [] e.kind = "BulletEntry" -> "bullet_entry"

\* the test as it would be without the hasattr part
ReturnsAsIs_text_only(e, tpls) == e.kind = "TextEntry"

\* isinstance(entry, str) or not hasattr(templates, entry.entry_type_in_snake_case)
ReturnsAsIs(e, tpls) ==
    e.kind = "TextEntry" \/ entry_type_in_snake_case(e) \notin DOMAIN tpls

\* getattr(templates, entry.entry_type_in_snake_case).model_dump(exclude_none=True);
\* getattr without a default raises AttributeError
TemplatesOf(e, tpls) ==
    IF e.kind = "TextEntry" \/ entry_type_in_snake_case(e) \notin DOMAIN tpls
    THEN Raise("AttributeError")
    ELSE Return(tpls[entry_type_in_snake_case(e)])

\* the attributes an entry type defines besides those the entry sets
DefinedAttrs(e) ==
    DOMAIN e.attrs \cup
        {highlights_attr, authors_attr, date_attr, start_date_attr, end_date_attr,
         url_attr, doi_attr, summary_attr}

\* the Field Map as it would be without exclude_none=True
FieldsOf_with_none(e) ==
    [key \in {Upper(name) : name \in DefinedAttrs(e)} |->
        GetAttr(e, CHOOSE name \in DefinedAttrs(e) : Upper(name) = key)]

\* {key.upper(): value for key, value in entry.model_dump(exclude_none=True).items()}
FieldsOf(e) ==
    [key \in {Upper(name) : name \in DOMAIN e.attrs} |->
        e.attrs[CHOOSE name \in DOMAIN e.attrs : Upper(name) = key]]

\* d[key] = value
SetItem(d, key, value) ==
    [k \in DOMAIN d \cup {key} |-> IF k = key THEN value ELSE d[k]]

\* the order of the slots of a template set (and of the docstring's "title")
SlotOrder == <<title_attr, main_column, date_and_location_column>>

\* entry_templates | entry_fields
DictUnion(a, b) == [k \in DOMAIN a \cup DOMAIN b |-> IF k \in DOMAIN b THEN b[k] ELSE a[k]]

\* the loop as it would be with setattr(entry, template_name.lower(), ...)
WriteBack_lower(e, tpls, fields) ==
    LET all == DictUnion(tpls, fields)
        names == {Lower(k) : k \in DOMAIN all}
    IN [e EXCEPT !.attrs =
           [name \in DOMAIN e.attrs \cup names |->
               IF name \in names
               THEN substitute_placeholders(
                        all[CHOOSE k \in DOMAIN all : Lower(k) = name], fields)
               ELSE e.attrs[name]]]

\* the loop of setattr(entry, template_name, substitute_placeholders(...))
WriteBack(e, tpls, fields) ==
    LET all == DictUnion(tpls, fields) IN
    [e EXCEPT !.attrs =
        [name \in DOMAIN e.attrs \cup DOMAIN all |->
            IF name \in DOMAIN all
            THEN substitute_placeholders(all[name], fields)
            ELSE e.attrs[name]]]

Raised(message) ==
    /\ pc' = "raised"
    /\ result' = Raise(message)
    /\ UNCHANGED <<entry, entry_in, templates, show_time_span,
                   entry_templates, entry_fields, text, args>>

Goto(next, fields) ==
    /\ pc' = next
    /\ entry_fields' = fields
    /\ UNCHANGED <<entry, entry_in, templates, show_time_span,
                   entry_templates, result, text, args>>

Begin ==
    /\ pc = "call"
    /\ IF ReturnsAsIs(entry, templates)
       THEN /\ pc' = "returned"
            /\ result' = Return(<<>>)
            /\ UNCHANGED <<entry, entry_in, templates, show_time_span,
                           entry_templates, entry_fields, text, args>>
       ELSE LET t == TemplatesOf(entry, templates) IN
            IF ~t.ok THEN Raised(t.error)
            ELSE /\ pc' = "highlights"
                 /\ entry_templates' = t.v
                 /\ entry_fields' = FieldsOf(entry)
                 /\ UNCHANGED <<entry, entry_in, templates, show_time_span,
                                result, text, args>>

HighlightsStep ==
    /\ pc = "highlights"
    /\ IF HIGHLIGHTS \in DOMAIN entry_fields
       THEN IF highlights_attr \notin DOMAIN entry.attrs
            THEN Raised("HIGHLIGHTS in fields but highlights is None")
            ELSE Goto("authors", SetItem(entry_fields, HIGHLIGHTS,
                                         process_highlights(entry.attrs[highlights_attr])))
       ELSE Goto("authors", entry_fields)

AuthorsStep ==
    /\ pc = "authors"
    /\ IF AUTHORS \in DOMAIN entry_fields
       THEN IF authors_attr \notin DOMAIN entry.attrs
            THEN Raised("AUTHORS in fields but authors is None")
            ELSE Goto("date", SetItem(entry_fields, AUTHORS,
                                      process_authors(entry.attrs[authors_attr])))
       ELSE Goto("date", entry_fields)

DateStep ==
    /\ pc = "date"
    /\ IF \/ DATE \in DOMAIN entry_fields
          \/ START_DATE \in DOMAIN entry_fields
          \/ END_DATE \in DOMAIN entry_fields
       THEN LET r == process_date(GetAttr(entry, date_attr),
                                  GetAttr(entry, start_date_attr),
                                  GetAttr(entry, end_date_attr),
                                  show_time_span)
            IN IF r.ok THEN Goto("start_date", SetItem(entry_fields, DATE, r.v))
               ELSE Raised(r.error)
       ELSE Goto("start_date", entry_fields)

StartDateStep ==
    /\ pc = "start_date"
    /\ IF START_DATE \in DOMAIN entry_fields
       THEN IF GetAttr(entry, start_date_attr) = None
            THEN Raised("START_DATE in fields but start_date is None")
            ELSE Goto("end_date", SetItem(entry_fields, START_DATE,
                          format_single_date(entry.attrs[start_date_attr])))
       ELSE Goto("end_date", entry_fields)

EndDateStep ==
    /\ pc = "end_date"
    /\ IF END_DATE \in DOMAIN entry_fields
       THEN IF GetAttr(entry, end_date_attr) = None
            THEN Raised("END_DATE in fields but end_date is None")
            ELSE Goto("url", SetItem(entry_fields, END_DATE,
                          format_single_date(entry.attrs[end_date_attr])))
       ELSE Goto("url", entry_fields)

\* the URL step as it would be with the value set on the entry at once
UrlStep_setattr_at_once ==
    /\ pc = "url"
    /\ IF URL \in DOMAIN entry_fields
       THEN LET r == process_url(entry) IN
            IF r.ok
            THEN /\ pc' = "doi"
                 /\ entry_fields' = SetItem(entry_fields, URL, r.v)
                 /\ entry' = [entry EXCEPT !.attrs = SetItem(entry.attrs, URL, r.v)]
                 /\ UNCHANGED <<entry_in, templates, show_time_span,
                                entry_templates, result, text, args>>
            ELSE Raised(r.error)
       ELSE Goto("doi", entry_fields)

UrlStep ==
    /\ pc = "url"
    /\ IF URL \in DOMAIN entry_fields
       THEN LET r == process_url(entry) IN
            IF r.ok THEN Goto("doi", SetItem(entry_fields, URL, r.v))
            ELSE Raised(r.error)
       ELSE Goto("doi", entry_fields)

DoiStep ==
    /\ pc = "doi"
    /\ IF DOI \in DOMAIN entry_fields
       THEN LET u == process_url(entry)
                d == process_doi(entry)
            IN IF ~u.ok THEN Raised(u.error)
               ELSE IF ~d.ok THEN Raised(d.error)
               ELSE Goto("summary", SetItem(SetItem(entry_fields, URL, u.v), DOI, d.v))
       ELSE Goto("summary", entry_fields)

SummaryStep ==
    /\ pc = "summary"
    /\ IF SUMMARY \in DOMAIN entry_fields
       THEN Goto("elide", SetItem(entry_fields, SUMMARY,
                                  process_summary(entry_fields[SUMMARY])))
       ELSE Goto("elide", entry_fields)

ElideStep ==
    /\ pc = "elide"
    /\ pc' = "write"
    /\ entry_templates' =
           remove_not_provided_placeholders(entry_templates, entry_fields, SlotOrder)
    /\ UNCHANGED <<entry, entry_in, templates, show_time_span,
                   entry_fields, result, text, args>>

WriteStep ==
    /\ pc = "write"
    /\ pc' = "returned"
    /\ entry' = WriteBack(entry, entry_templates, entry_fields)
    /\ result' = Return(<<>>)
    /\ UNCHANGED <<entry_in, templates, show_time_span,
                   entry_templates, entry_fields, text, args>>

(***************************************************************************)
(* The entries and template sets rendered.                                 *)
(***************************************************************************)
PublicationMainColumn == <<"*","*","T","I","T","L","E","*","*","\n","A","U","T","H","O","R","S","\n","U","R","L"," ","(","J","O","U","R","N","A","L",")">>
PublicationDateColumn == <<"D","A","T","E">>
ExperienceMainColumn == <<"*","*","C","O","M","P","A","N","Y","*","*",","," ","P","O","S","I","T","I","O","N","\n","S","U","M","M","A","R","Y","\n","H","I","G","H","L","I","G","H","T","S">>
ExperienceDateColumn == <<"L","O","C","A","T","I","O","N","\n","D","A","T","E">>

\* a Templates object: the template sets by entry type
ClassicTemplates ==
    [publication_entry |-> (main_column :> PublicationMainColumn)
                             @@ (date_and_location_column :> PublicationDateColumn),
     experience_entry |-> (main_column :> ExperienceMainColumn)
                            @@ (date_and_location_column :> ExperienceDateColumn)]

\* every map of S, and every map of S with name set to one of values
Optional(S, name, values) == S \cup {f @@ (name :> v) : f \in S, v \in values}

DateAttrs(S) ==
    Optional(Optional(Optional(S,
        date_attr, {<<>>, <<"2","0","2","4">>}),
        start_date_attr, {<<>>, <<"2","0","2","0">>}),
        end_date_attr, {<<>>, <<"p","r","e","s","e","n","t">>})

LinkAttrs(S) ==
    Optional(Optional(S,
        url_attr, {<<>>, <<"h",":","/","/","x","/">>}),
        doi_attr, {<<>>, <<"1","0",".","1","/","x">>})

SummaryAttr(S) == Optional(S, summary_attr, {<<"S","\n","T">>})

PublicationAttrs ==
    SummaryAttr(LinkAttrs(DateAttrs(
        Optional(Optional({title_attr :> <<"T">>},
            journal_attr, {<<"J">>}),
            authors_attr, {<< <<"A">>, <<"B">> >>}))))

ExperienceAttrs ==
    SummaryAttr(LinkAttrs(DateAttrs(
        Optional(Optional({(company_attr :> <<"C">>) @@ (position_attr :> <<"P">>)},
            location_attr, {<<"L">>}),
            highlights_attr, {<< <<"H">>, <<"K"," ","-"," ","D">> >>}))))

\* a TextEntry is a str: it has no attributes, and its text stands under
\* "<str>"
Entries ==
    {[kind |-> "PublicationEntry", attrs |-> f] : f \in PublicationAttrs}
    \cup {[kind |-> "ExperienceEntry", attrs |-> f] : f \in ExperienceAttrs}
    \cup {[kind |-> "BulletEntry", attrs |-> (<<"b","u","l","l","e","t">> :> <<"B">>)],
          [kind |-> "TextEntry", attrs |-> (<<"<str>">> :> <<"t","e","x","t">>)]}

Idle == <<>>

Init ==
    /\ pc = "call"
    /\ entry \in Entries
    /\ entry_in = entry
    /\ templates = ClassicTemplates
    /\ show_time_span \in BOOLEAN
    /\ entry_templates = Unset
    /\ entry_fields = Unset
    /\ result = NoResult
    /\ text = Idle
    /\ args = Idle

Next ==
    \/ Begin
    \/ HighlightsStep
    \/ AuthorsStep
    \/ DateStep
    \/ StartDateStep
    \/ EndDateStep
    \/ UrlStep
    \/ DoiStep
    \/ SummaryStep
    \/ ElideStep
    \/ WriteStep

Spec == Init /\ [][Next]_vars

(***************************************************************************)
(* clean_trailing_parts on its own: a text is cleaned, and the result is   *)
(* cleaned again.                                                          *)
(***************************************************************************)
DocstringText == <<"P","o","s","i","t","i","o","n"," ","a","t"," ","C","o","m","p","a","n","y",","," ","\n","L","i","n","k",":"," ">>

\* a letter, a separator, a blank and two line boundaries
CleanAlphabet == {"a", ",", " ", "\n", "\r"}

CleanInputs == Strings(CleanAlphabet, MaxLen) \cup {DocstringText}

InitClean ==
    /\ pc = "clean_call"
    /\ text \in CleanInputs
    /\ result = <<>>
    /\ entry = Idle
    /\ entry_in = Idle
    /\ templates = Idle
    /\ show_time_span = FALSE
    /\ entry_templates = Idle
    /\ entry_fields = Idle
    /\ args = Idle

CleanCall ==
    /\ pc = "clean_call"
    /\ pc' = "clean_again"
    /\ result' = <<clean_trailing_parts(text)>>
    /\ UNCHANGED <<entry, entry_in, templates, show_time_span,
                   entry_templates, entry_fields, text, args>>

CleanAgain ==
    /\ pc = "clean_again"
    /\ pc' = "cleaned"
    /\ result' = Append(result, clean_trailing_parts(result[1]))
    /\ UNCHANGED <<entry, entry_in, templates, show_time_span,
                   entry_templates, entry_fields, text, args>>

NextClean == CleanCall \/ CleanAgain

SpecClean == InitClean /\ [][NextClean]_vars

(***************************************************************************)
(* remove_not_provided_placeholders on its own, followed by the            *)
(* substitution render_entry_templates applies to its result.              *)
(***************************************************************************)
DocstringTemplate == <<"P","O","S","I","T","I","O","N"," ","a","t"," ","C","O","M","P","A","N","Y",","," ","L","O","C","A","T","I","O","N">>
DocstringElided == <<"P","O","S","I","T","I","O","N"," ","a","t"," ","C","O","M","P","A","N","Y">>
DocstringRendered == <<"E","n","g","i","n","e","e","r"," ","a","t"," ","A","c","m","e">>
POSITION == <<"P","O","S","I","T","I","O","N">>
COMPANY == <<"C","O","M","P","A","N","Y">>

DocstringTemplates == (title_attr :> DocstringTemplate)

DocstringFields ==
    (POSITION :> <<"E","n","g","i","n","e","e","r">>) @@ (COMPANY :> <<"A","c","m","e">>)

\* two placeholder letters, a lowercase letter, a separator, a letter outside
\* ASCII, a blank and a line boundary
ElideAlphabet == {"A", "B", "a", ",", "U+00E9", " ", "\n"}

ElideKeys == {<<"A">>, <<"B">>, <<"A","B">>}

ElideTemplates ==
    {(main_column :> x) @@ (date_and_location_column :> y) :
        <<x, y>> \in {xy \in Strings(ElideAlphabet, MaxTemplateLen)
                              \X Strings(ElideAlphabet, MaxTemplateLen) :
                         Len(xy[1]) + Len(xy[2]) <= MaxTemplateLen}}

ElideFields == {[k \in K |-> <<"v">>] : K \in SUBSET ElideKeys}

ElideInputs ==
    (ElideTemplates \X ElideFields) \cup {<<DocstringTemplates, DocstringFields>>}

InitElide ==
    /\ pc = "elide_call"
    /\ \E in \in ElideInputs : entry_templates = in[1] /\ entry_fields = in[2]
    /\ result = Idle
    /\ text = Idle
    /\ entry = Idle
    /\ entry_in = Idle
    /\ templates = Idle
    /\ show_time_span = FALSE
    /\ args = Idle

ElideCall ==
    /\ pc = "elide_call"
    /\ pc' = "substitute_call"
    /\ result' = remove_not_provided_placeholders(entry_templates, entry_fields, SlotOrder)
    /\ UNCHANGED <<entry, entry_in, templates, show_time_span,
                   entry_templates, entry_fields, text, args>>

SubstituteCall ==
    /\ pc = "substitute_call"
    /\ pc' = "rendered"
    /\ text' = [slot \in DOMAIN result |->
                   substitute_placeholders(result[slot], entry_fields)]
    /\ UNCHANGED <<entry, entry_in, templates, show_time_span,
                   entry_templates, entry_fields, result, args>>

NextElide == ElideCall \/ SubstituteCall

SpecElide == InitElide /\ [][NextElide]_vars

(***************************************************************************)
(* process_date on its own.                                                *)
(***************************************************************************)
DateArguments ==
    [date : {None, <<>>, <<"2","0","2","4">>, <<"F","a","l","l">>},
     start_date : {None, <<>>, <<"2","0","2","0">>},
     end_date : {None, <<>>, <<"2","0","2","1">>, <<"p","r","e","s","e","n","t">>},
     show_time_span : BOOLEAN]

InitDate ==
    /\ pc = "process_date_call"
    /\ args \in DateArguments
    /\ result = NoResult
    /\ text = Idle
    /\ entry = Idle
    /\ entry_in = Idle
    /\ templates = Idle
    /\ show_time_span = FALSE
    /\ entry_templates = Idle
    /\ entry_fields = Idle

ProcessDateCall ==
    /\ pc = "process_date_call"
    /\ result' = process_date(args.date, args.start_date, args.end_date,
                              args.show_time_span)
    /\ pc' = IF result'.ok THEN "returned" ELSE "raised"
    /\ UNCHANGED <<entry, entry_in, templates, show_time_span,
                   entry_templates, entry_fields, text, args>>

NextDate == ProcessDateCall

SpecDate == InitDate /\ [][NextDate]_vars

(***************************************************************************)
(* Properties                                                              *)
(***************************************************************************)
\* str.split("\n") of a text that is not empty
RECURSIVE SplitAtNewlines(_)
SplitAtNewlines(s) ==
    LET at == {i \in 1..Len(s) : s[i] = "\n"} IN
    IF at = {} THEN <<s>>
    ELSE LET b == CHOOSE i \in at : \A j \in at : i <= j
         IN <<Slice(s, 1, b - 1)>> \o
              (IF b = Len(s) THEN << <<>> >> ELSE SplitAtNewlines(Slice(s, b + 1, Len(s))))

\* the positions where f stands in s as a placeholder token
TokenStarts(s, f) ==
    {i \in 1..Len(s) :
        /\ MatchesAt(s, f, i)
        /\ (i = 1 \/ ~IsWordChar(s[i - 1]))
        /\ (i + Len(f) > Len(s) \/ ~IsWordChar(s[i + Len(f)]))}

\* the maximal run of non-whitespace characters around position i
RunAround(s, i) ==
    LET a == CHOOSE a \in 1..i : /\ \A k \in a..i : ~IsSpace(s[k])
                                 /\ (a = 1 \/ IsSpace(s[a - 1]))
        b == CHOOSE b \in i..Len(s) : /\ \A k \in i..b : ~IsSpace(s[k])
                                      /\ (b = Len(s) \/ IsSpace(s[b + 1]))
    IN Slice(s, a, b)

Contains(run, p) == \E k \in 1..Len(run) : MatchesAt(run, p, k)

\* the positions of s outside every run that contains a placeholder of
\* missing as a substring
KeptPositions(s, missing) ==
    {i \in 1..Len(s) :
        IsSpace(s[i]) \/ \A p \in missing : ~Contains(RunAround(s, i), p)}

\* s without the positions outside keep
Restrict(s, keep) ==
    LET idx == SelectSeq([i \in 1..Len(s) |-> i], LAMBDA i : i \in keep)
    IN [k \in 1..Len(idx) |-> s[idx[k]]]

\* the placeholder tokens of all templates that are no key of the Field Map
MissingIn(tpls, fields) ==
    UNION {uppercase_word_findall(tpls[slot]) : slot \in DOMAIN tpls} \ DOMAIN fields

\* C1: after remove_not_provided_placeholders returns, no template holds a
\* placeholder token that is not a key of entry_fields.
C1_NoMissingPlaceholderRemains ==
    pc \in {"substitute_call", "rendered"} =>
        \A slot \in DOMAIN result :
            uppercase_word_findall(result[slot]) \subseteq DOMAIN entry_fields

C3_NoEmptyLineInOutput ==
    pc \in {"clean_again", "cleaned"} =>
        (result[1] # <<>> =>
            LET lines == SplitAtNewlines(result[1]) IN
            \A i \in DOMAIN lines :
                lines[i] # <<>> /\ IsAllowedTrailing(lines[i][Len(lines[i])]))

\* C4: the elider removes exactly the whitespace-delimited runs that contain
\* a not-provided placeholder as a substring (the rest of the run with it),
\* then cleans; every placeholder token of an available field that stands
\* outside those runs is still a token of the returned template, and
\* substituting the docstring's example gives "Engineer at Acme".
C4_WholeRunsElided ==
    pc \in {"substitute_call", "rendered"} =>
        LET missing == MissingIn(entry_templates, entry_fields) IN
        /\ DOMAIN result = DOMAIN entry_templates
        /\ \A slot \in DOMAIN entry_templates :
              LET s == entry_templates[slot]
                  keep == KeptPositions(s, missing)
              IN /\ missing = {} => result[slot] = s
                 /\ missing # {} =>
                       result[slot] = clean_trailing_parts(Restrict(s, keep))
                 /\ \A f \in DOMAIN entry_fields :
                       Cardinality(TokenStarts(s, f) \cap keep)
                           <= Cardinality(TokenStarts(result[slot], f))
        /\ (entry_templates = DocstringTemplates /\ entry_fields = DocstringFields) =>
              /\ result = (title_attr :> DocstringElided)
              /\ pc = "rendered" => text = (title_attr :> DocstringRendered)

\* C4 witness: the docstring's template has been elided and substituted.
C4_Witness ==
    /\ pc = "rendered"
    /\ entry_templates = DocstringTemplates
    /\ entry_fields = DocstringFields
    /\ result[title_attr] = DocstringElided
    /\ text[title_attr] = DocstringRendered

\* C5: process_date returns the single date's text when date is present and
\* start_date and end_date are not, else the range (with the time span after
\* two newlines if show_time_span) when start_date and end_date are both
\* present, and raises in every other combination of presence.
C5_DateRoutesByPresence ==
    pc \in {"returned", "raised"} =>
        LET d == args.date # None
            s == args.start_date # None
            e == args.end_date # None
            range == format_date_range(args.start_date, args.end_date)
            span == compute_time_span_string(args.start_date, args.end_date)
        IN IF d /\ ~s /\ ~e THEN result = Return(format_single_date(args.date))
           ELSE IF s /\ e
           THEN result = Return(IF args.show_time_span
                                THEN range \o <<"\n", "\n">> \o span ELSE range)
           ELSE ~result.ok

C7_NoPartialResult ==
    entry # entry_in => (pc = "returned" /\ result.ok)

\* C7 witness: the call raised after a special field had been processed.
C7_Witness ==
    /\ pc = "raised"
    /\ result.error = "DOI is not provided for this entry."
    /\ URL \in DOMAIN entry_fields
    /\ entry_fields[URL] # entry_in.attrs[url_attr]
    /\ entry = entry_in

\* C8: a TextEntry, or an entry whose type has no template set, is returned
\* as it is: nothing is extracted, processed, elided or written, and
\* nothing is raised.
C8_IdentityRendering ==
    (/\ pc # "call"
     /\ \/ entry_in.kind = "TextEntry"
        \/ entry_type_in_snake_case(entry_in) \notin DOMAIN templates) =>
        /\ pc = "returned"
        /\ result.ok
        /\ entry = entry_in
        /\ entry_fields = Unset
        /\ entry_templates = Unset

\* C8 witness: an entry without a template set (and without dates or URLs)
\* has been returned.
C8_Witness ==
    /\ pc = "returned"
    /\ entry_in.kind = "BulletEntry"
    /\ entry = entry_in

\* C9 as stated: each key of the union is written to the attribute named by
\* the key in lower case, and no other attribute is written.
C9_WrittenLowerCased ==
    (pc = "returned" /\ entry_fields # Unset) =>
        LET all == DictUnion(entry_templates, entry_fields) IN
        /\ DOMAIN entry.attrs = DOMAIN entry_in.attrs \cup {Lower(k) : k \in DOMAIN all}
        /\ \A k \in DOMAIN all :
              entry.attrs[Lower(k)] = substitute_placeholders(all[k], entry_fields)

\* C9 as amended: each key of the union is written to the attribute named by
\* the key itself (a slot name as configured, a Field Map key in upper case),
\* and no other attribute is written or changed.
C9_WrittenUnderKey ==
    (pc = "returned" /\ entry_fields # Unset) =>
        LET all == DictUnion(entry_templates, entry_fields) IN
        /\ DOMAIN entry.attrs = DOMAIN entry_in.attrs \cup DOMAIN all
        /\ \A k \in DOMAIN all :
              entry.attrs[k] = substitute_placeholders(all[k], entry_fields)
        /\ \A name \in DOMAIN entry_in.attrs \ DOMAIN all :
              entry.attrs[name] = entry_in.attrs[name]

\* C9 witness: a render has written the slots and the upper-case keys, and
\* the raw date attribute is as it was.
C9_Witness ==
    /\ pc = "returned"
    /\ entry_fields # Unset
    /\ {main_column, date_and_location_column, DATE, HIGHLIGHTS} \subseteq DOMAIN entry.attrs
    /\ date_attr \in DOMAIN entry_in.attrs
    /\ entry.attrs[date_attr] = entry_in.attrs[date_attr]
    /\ entry.attrs[DATE] = format_single_date(entry_in.attrs[date_attr])

\* the raw attributes a special key of the Field Map is computed from
Backing(key) ==
    IF key = DATE THEN {date_attr, start_date_attr, end_date_attr}
    ELSE IF key = URL THEN {url_attr, doi_attr}
    ELSE {Lower(key)}

SpecialKeys == {HIGHLIGHTS, AUTHORS, DATE, START_DATE, END_DATE, URL, DOI, SUMMARY}

\* C10 as stated: after a successful render the Field Map holds DATE only
\* if the entry has a date attribute, and URL only if it has a url attribute.
C10_KeyOnlyWithOwnAttribute ==
    (pc = "returned" /\ entry_fields # Unset) =>
        /\ DATE \in DOMAIN entry_fields => date_attr \in DOMAIN entry_in.attrs
        /\ URL \in DOMAIN entry_fields => url_attr \in DOMAIN entry_in.attrs

\* C10 as amended: at every point of a render, and so after a successful
\* one, the Field Map holds a special key only if the entry has an attribute
\* the key is computed from: date, start_date or end_date for DATE, url or
\* doi for URL, the attribute of the same name for the others.
C10_KeyOnlyWithBackingAttribute ==
    entry_fields # Unset =>
        \A key \in SpecialKeys :
            key \in DOMAIN entry_fields =>
                Backing(key) \cap DOMAIN entry_in.attrs # {}

\* C10 witness: a render succeeded with DATE computed from the start and end
\* dates and URL computed from the DOI.
C10_Witness ==
    /\ pc = "returned"
    /\ entry_fields # Unset
    /\ DATE \in DOMAIN entry_fields
    /\ date_attr \notin DOMAIN entry_in.attrs
    /\ URL \in DOMAIN entry_fields
    /\ url_attr \notin DOMAIN entry_in.attrs

====
